---- MODULE Spec2Model ----
(***************************************************************************)
(* Model of board/ste/stemmy/stemmy.c (U-Boot, ST-Ericsson "stemmy"        *)
(* boards): the ATAG list handed over by the Samsung bootloader is walked  *)
(* to find the RAM banks and the serial number, filtered into a malloc'ed  *)
(* copy, and re-emitted into the tag list built for the kernel.            *)
(*                                                                         *)
(* Memory is one array of 32-bit words; pointers are byte addresses.       *)
(* Sizes stay far below 2^32 within the bounds, so the u32 arithmetic      *)
(* of the source never wraps here.                                         *)
(***************************************************************************)
EXTENDS Integers, Sequences, FiniteSets, TLC

(* ---------------------------- bounds ---------------------------------- *)

\* records between the first record and the terminator of a source list
MaxTags == 2
\* calls of setup_board_tags (one per boot attempt)
MaxEmit == 1
\* calls of misc_init_r under SpecRecall
MaxRecall == 2
\* records between the first record and the terminator under SpecRecall
RecallTags == 1
\* capacity of gd->bd->bi_dram[] (a build-time configuration value)
CONFIG_NR_DRAM_BANKS == 1

(* --------------------------- constants -------------------------------- *)

NULL == 0
EINVAL == 22
\* "t->hdr.size << 2": a word is four bytes
WordBytes == 4
\* the record header: (tag identifier, size in words), two u32
HdrWords == 2

ATAG_NONE == 0
ATAG_CORE == 1413545985
ATAG_MEM == 1413545986
ATAG_INITRD == 1413545989
ATAG_SERIAL == 1413545990
ATAG_CMDLINE == 1413545993
ATAG_INITRD2 == 1413611525

(* ------------------------- source lists ------------------------------- *)

\* A record as it lies in memory: hdr.tag, hdr.size, then the payload.
Rec(tag, size, payload) == <<tag, size>> \o payload

TagCore == Rec(ATAG_CORE, 2, <<>>)
TagMemA == Rec(ATAG_MEM, 4, <<1, 2>>)        \* u.mem.start = 1, u.mem.size = 2
TagMemB == Rec(ATAG_MEM, 4, <<3, 1>>)        \* u.mem.start = 3, u.mem.size = 1
TagSerialA == Rec(ATAG_SERIAL, 4, <<1, 2>>)  \* low = 1, high = 2
TagSerialB == Rec(ATAG_SERIAL, 4, <<171, 0>>)
TagInitrd == Rec(ATAG_INITRD, 4, <<5, 6>>)
TagInitrd2 == Rec(ATAG_INITRD2, 4, <<5, 6>>)
TagCmdline == Rec(ATAG_CMDLINE, 3, <<7>>)
TagNone2 == Rec(ATAG_NONE, 2, <<>>)          \* a NONE record of header-only size
TagZero == Rec(ATAG_CMDLINE, 0, <<>>)        \* a record declaring size zero
TagZeroMem == Rec(ATAG_MEM, 0, <<>>)         \* a MEM header declaring size zero
TagEnd == Rec(ATAG_NONE, 0, <<>>)            \* the terminator as setup_end_tag writes it

MidTags == {TagMemA, TagMemB, TagSerialA, TagSerialB, TagInitrd, TagInitrd2,
            TagCmdline, TagNone2, TagZero, TagZeroMem}
FirstTags == {TagCore, TagMemA}

RECURSIVE Flat(_)
Flat(recs) == IF recs = <<>> THEN <<>> ELSE Head(recs) \o Flat(Tail(recs))

SeqsUpTo(S, n) == UNION {[1..k -> S] : k \in 0..n}

SourceLists(n) == {<<f>> \o mid \o <<TagEnd>> : f \in FirstTags, mid \in SeqsUpTo(MidTags, n)}

(* --------------------------- memory map ------------------------------- *)

Max(a, b) == IF a >= b THEN a ELSE b

\* the longest filtered list, and the largest fw_atags_size, in words
MaxRecWords == HdrWords + 2
FilteredMaxWords == MaxTags * MaxRecWords
EmitMaxWords == Max(FilteredMaxWords, MaxRecall * RecallTags * MaxRecWords)
\* the boot-parameter area, the malloc arena and a buffer of the caller's own
ParamsWords == HdrWords + EmitMaxWords + HdrWords
HeapWords == EmitMaxWords + FilteredMaxWords
OutWords == EmitMaxWords

AtagsAddr == WordBytes
HeapBase == AtagsAddr + ParamsWords * WordBytes
HeapEnd == HeapBase + HeapWords * WordBytes
OutBase == HeapEnd
MemWords == (OutBase \div WordBytes) + OutWords

Addrs == 0..(MemWords - 1)

\* the u32 at byte address a; memory outside the modelled window reads zero
Rd(m, a) == IF (a \div WordBytes) \in DOMAIN m THEN m[a \div WordBytes] ELSE 0

\* the n words from byte address a
Words(m, a, n) == [i \in 1..n |-> Rd(m, a + (i - 1) * WordBytes)]

\* memcpy(dst, src, n): n bytes, n a multiple of the word size
memcpy(m, dst, src, n) ==
    [i \in DOMAIN m |->
        IF i * WordBytes >= dst /\ i * WordBytes < dst + n
        THEN Rd(m, src + (i * WordBytes - dst))
        ELSE m[i]]

\* a block handed out by malloc holds whatever the arena held: fill
fill_block(m, p, n, fill) ==
    [i \in DOMAIN m |->
        IF i * WordBytes >= p /\ i * WordBytes < p + n THEN fill ELSE m[i]]

(* -------------------------- struct tag -------------------------------- *)

hdr_tag(m, t) == Rd(m, t)
hdr_size(m, t) == Rd(m, t + WordBytes)
mem_start(m, t) == Rd(m, t + 2 * WordBytes)
mem_size(m, t) == Rd(m, t + 3 * WordBytes)
serialnr_low(m, t) == Rd(m, t + 2 * WordBytes)
serialnr_high(m, t) == Rd(m, t + 3 * WordBytes)

tag_next(m, t) == t + hdr_size(m, t) * WordBytes

\* a walk that ends at a zero size only
tag_end_size_only(m, t) == hdr_size(m, t) = 0

\* the end of a walk, as section 4.1 of the specification gives it
tag_end(m, t) == hdr_size(m, t) = 0 \/ hdr_tag(m, t) = ATAG_NONE

\* for_each_tag(t, base): the records visited, in order
RECURSIVE for_each_tag(_, _)
for_each_tag(m, t) ==
    IF tag_end(m, t) THEN <<>> ELSE <<t>> \o for_each_tag(m, tag_next(m, t))

(* ------------------------ environment store --------------------------- *)

\* the store is a function from the keys that are set to their values
\* env_get(k) != NULL
env_get(e, k) == k \in DOMAIN e
env_set(e, k, v) == [x \in (DOMAIN e) \cup {k} |-> IF x = k THEN v ELSE e[x]]

\* sprintf "%08x": eight lowercase hexadecimal digits, zero padded
HexDigit(d) ==
    <<"0", "1", "2", "3", "4", "5", "6", "7", "8", "9", "a", "b", "c", "d", "e", "f">>[d + 1]

RECURSIVE HexN(_, _)
HexN(v, n) == IF n = 0 THEN "" ELSE HexN(v \div 16, n - 1) \o HexDigit(v % 16)

sprintf_08x_08x(a, b) == HexN(a, 8) \o HexN(b, 8)

(* ------------------------------ state --------------------------------- *)

VARIABLES
    mem,             \* physical memory, one u32 per word
    fw_mach,         \* static ulong fw_mach
    fw_atags,        \* static ulong fw_atags
    fw_atags_copy,   \* static const struct tag *fw_atags_copy
    fw_atags_size,   \* static uint fw_atags_size
    ram_size,        \* gd->ram_size
    bi_dram,         \* gd->bd->bi_dram[]
    bi_arch_number,  \* gd->bd->bi_arch_number
    bi_boot_params,  \* gd->bd->bi_boot_params
    env,             \* the environment store
    serial_writes,   \* how often parse_serial called env_set
    brk,             \* first free byte of the malloc arena
    copy,            \* copy_atags' local "copy" when its copy pass last ended
    params_in,       \* *in_params when setup_board_tags was last entered
    params,          \* *in_params when setup_board_tags last returned
    ret,             \* value returned by the last call
    keys,            \* what check_keys last found: its struct gpio_keys, and the values read
    calls            \* how often each operation was called

vars == <<mem, fw_mach, fw_atags, fw_atags_copy, fw_atags_size, ram_size, bi_dram,
          bi_arch_number, bi_boot_params, env, serial_writes, brk, copy, params_in,
          params, ret, keys, calls>>

Ops == {"save_boot_params", "dram_init", "dram_init_banksize", "board_init",
        "misc_init_r", "setup_board_tags"}

Banks == 0..(CONFIG_NR_DRAM_BANKS - 1)

\* what the primary bootloader may leave in serial# before this stage runs
EnvPresets == {<<>>, [k \in {"serial#"} |-> "feedfacecafebeef"]}

MachIds == {8520}

\* "struct gpio_keys keys = {0}": no blob looked at, no node found, no
\* descriptor requested, nothing read
NoKeys == [blob |-> FALSE, vol_up_node |-> FALSE, vol_down_node |-> FALSE,
           vol_up |-> FALSE, vol_down |-> FALSE, up_value |-> 0, down_value |-> 0]

\* the source list lies at AtagsAddr, the rest of memory is zero
LoadList(list) ==
    [i \in Addrs |->
        LET k == i - (AtagsAddr \div WordBytes) + 1
        IN IF k \in 1..Len(Flat(list)) THEN Flat(list)[k] ELSE 0]

InitWith(lists) ==
    /\ \E list \in lists : mem = LoadList(list)
    /\ env \in EnvPresets
    /\ fw_mach = 0
    /\ fw_atags = 0
    /\ fw_atags_copy = NULL
    /\ fw_atags_size = 0
    /\ ram_size = 0
    /\ bi_dram = [b \in Banks |-> [start |-> 0, size |-> 0]]
    /\ bi_arch_number = 0
    /\ bi_boot_params = 0
    /\ serial_writes = 0
    /\ brk = HeapBase
    /\ copy = NULL
    /\ params_in = NULL
    /\ params = NULL
    /\ ret = 0
    /\ keys = NoKeys
    /\ calls = [o \in Ops |-> 0]

Init == InitWith(SourceLists(MaxTags))
InitRecall == InitWith(SourceLists(RecallTags))

Called(o) == calls' = [calls EXCEPT ![o] = @ + 1]

\* The init hooks run from the init sequence, in its order (dram_init and
\* dram_init_banksize before relocation, board_init and misc_init_r after),
\* and the sequence is over before a boot command hands the tags off: no
\* hook runs once setup_board_tags has written.
HandedOff == params # params_in
InInit(before) == calls[before] >= 1 /\ ~HandedOff

(* ------------------------- save_boot_params --------------------------- *)

\* the two registers exchanged
save_boot_params_swapped(r0, r1, r2, r3) ==
    /\ calls["save_boot_params"] = 0
    /\ fw_mach' = r2
    /\ fw_atags' = r1
    /\ ret' = 0
    /\ Called("save_boot_params")
    /\ UNCHANGED <<mem, fw_atags_copy, fw_atags_size, ram_size, bi_dram, bi_arch_number,
                   bi_boot_params, env, serial_writes, brk, copy, params_in, params,
                   keys>>

save_boot_params(r0, r1, r2, r3) ==
    /\ calls["save_boot_params"] = 0
    /\ fw_mach' = r1
    /\ fw_atags' = r2
    /\ ret' = 0
    /\ Called("save_boot_params")
    /\ UNCHANGED <<mem, fw_atags_copy, fw_atags_size, ram_size, bi_dram, bi_arch_number,
                   bi_boot_params, env, serial_writes, brk, copy, params_in, params,
                   keys>>

(* --------------------------- fw_atags_get ----------------------------- *)

\* the check of the first record left out
fw_atags_get_unchecked(m, atags) == atags

\* NULL unless the first record is ATAG_CORE
fw_atags_get(m, atags) == IF hdr_tag(m, atags) # ATAG_CORE THEN NULL ELSE atags

(* ----------------------------- dram_init ------------------------------ *)

\* "=" written for "+="
dram_init_assign(size, m, t) == mem_size(m, t)

RECURSIVE dram_init_loop(_, _, _)

\* the end of the walk tested after the record was looked at, not before
dram_init_loop_late_end(m, t, size) ==
    LET s1 == IF hdr_tag(m, t) = ATAG_MEM THEN size + mem_size(m, t) ELSE size
    IN IF hdr_size(m, t) = 0 \/ hdr_tag(m, t) = ATAG_NONE THEN s1
       ELSE dram_init_loop(m, t + hdr_size(m, t) * WordBytes, s1)

dram_init_add(size, m, t) == size + mem_size(m, t)

dram_init_loop(m, t, size) ==
    IF tag_end(m, t) THEN size
    ELSE IF hdr_tag(m, t) # ATAG_MEM THEN dram_init_loop(m, tag_next(m, t), size)
    ELSE dram_init_loop(m, tag_next(m, t), dram_init_add(size, m, t))

dram_init ==
    /\ InInit("save_boot_params")
    /\ calls["dram_init"] = 0
    /\ LET tags == fw_atags_get(mem, fw_atags) IN
        IF tags = NULL
        THEN /\ ret' = -EINVAL
             /\ UNCHANGED ram_size
        ELSE /\ ret' = 0
             /\ ram_size' = dram_init_loop(mem, tags, ram_size)
    /\ Called("dram_init")
    /\ UNCHANGED <<mem, fw_mach, fw_atags, fw_atags_copy, fw_atags_size, bi_dram,
                   bi_arch_number, bi_boot_params, env, serial_writes, brk, copy,
                   params_in, params,
                   keys>>

(* ------------------------- dram_init_banksize ------------------------- *)

\* the index compared before it is incremented: "bank++ == CONFIG_NR_DRAM_BANKS"
banks_full_late(bank) == bank = CONFIG_NR_DRAM_BANKS

\* "if (++bank == CONFIG_NR_DRAM_BANKS) break;"
banks_full(bank) == bank + 1 = CONFIG_NR_DRAM_BANKS

RECURSIVE dram_init_banksize_loop(_, _, _, _)
dram_init_banksize_loop(m, t, dram, bank) ==
    IF tag_end(m, t) THEN dram
    ELSE IF hdr_tag(m, t) # ATAG_MEM
    THEN dram_init_banksize_loop(m, tag_next(m, t), dram, bank)
    ELSE LET set == [b \in (DOMAIN dram) \cup {bank} |->
                        IF b = bank
                        THEN [start |-> mem_start(m, t), size |-> mem_size(m, t)]
                        ELSE dram[b]]
         IN IF banks_full(bank) THEN set
            ELSE dram_init_banksize_loop(m, tag_next(m, t), set, bank + 1)

dram_init_banksize ==
    /\ InInit("dram_init")
    /\ calls["dram_init_banksize"] = 0
    /\ LET tags == fw_atags_get(mem, fw_atags) IN
        IF tags = NULL
        THEN /\ ret' = -EINVAL
             /\ UNCHANGED bi_dram
        ELSE /\ ret' = 0
             /\ bi_dram' = dram_init_banksize_loop(mem, tags, bi_dram, 0)
    /\ Called("dram_init_banksize")
    /\ UNCHANGED <<mem, fw_mach, fw_atags, fw_atags_copy, fw_atags_size, ram_size,
                   bi_arch_number, bi_boot_params, env, serial_writes, brk, copy,
                   params_in, params,
                   keys>>

(* ----------------------------- board_init ----------------------------- *)

board_init ==
    /\ InInit("dram_init_banksize")
    /\ calls["board_init"] = 0
    /\ bi_arch_number' = fw_mach
    /\ bi_boot_params' = fw_atags
    /\ ret' = 0
    /\ Called("board_init")
    /\ UNCHANGED <<mem, fw_mach, fw_atags, fw_atags_copy, fw_atags_size, ram_size,
                   bi_dram, env, serial_writes, brk, copy, params_in, params,
                   keys>>

(* ---------------------------- parse_serial ---------------------------- *)

\* the test for an existing value left out
parse_serial_clobber(st, low, high) ==
    [st EXCEPT !.env = env_set(@, "serial#", sprintf_08x_08x(high, low)),
               !.serial_writes = @ + 1]

\* the two fields rendered in the order of the record: low, then high
parse_serial_low_first(st, low, high) ==
    IF env_get(st.env, "serial#") THEN st
    ELSE [st EXCEPT !.env = env_set(@, "serial#", sprintf_08x_08x(low, high)),
                    !.serial_writes = @ + 1]

\* st carries the environment store and the count of writes
parse_serial(st, low, high) ==
    IF env_get(st.env, "serial#") THEN st
    ELSE [st EXCEPT !.env = env_set(@, "serial#", sprintf_08x_08x(high, low)),
                    !.serial_writes = @ + 1]

(* ----------------------------- copy_atags ----------------------------- *)

\* INITRD2 forgotten
skip_atag_no_initrd2(tag) == tag = ATAG_NONE \/ tag = ATAG_CORE \/ tag = ATAG_INITRD

skip_atag(tag) ==
    tag = ATAG_NONE \/ tag = ATAG_CORE \/ tag = ATAG_INITRD \/ tag = ATAG_INITRD2

\* the shift forgotten: words counted as bytes
size_add_words(size, m, t) == size + hdr_size(m, t)

\* "fw_atags_size += t->hdr.size << 2"
size_add(size, m, t) == size + hdr_size(m, t) * WordBytes

\* the sizing pass; st carries fw_atags_size, env and serial_writes
RECURSIVE size_pass(_, _, _)
size_pass(m, t, st) ==
    IF tag_end(m, t) THEN st
    ELSE IF skip_atag(hdr_tag(m, t)) THEN size_pass(m, tag_next(m, t), st)
    ELSE LET st1 == IF hdr_tag(m, t) = ATAG_SERIAL
                    THEN parse_serial(st, serialnr_low(m, t), serialnr_high(m, t))
                    ELSE st
         IN size_pass(m, tag_next(m, t),
                      [st1 EXCEPT !.fw_atags_size = size_add(@, m, t)])

\* destination and source exchanged
copy_tag_swapped(m, cp, t) == memcpy(m, t, cp, hdr_size(m, t) * WordBytes)

\* "memcpy(copy, t, t->hdr.size << 2)"
copy_tag(m, cp, t) == memcpy(m, cp, t, hdr_size(m, t) * WordBytes)

RECURSIVE copy_pass(_, _, _)

\* the copy pass without its test of skip_atag: every record copied
copy_pass_unfiltered(m, t, cp) ==
    IF tag_end(m, t) THEN [mem |-> m, copy |-> cp]
    ELSE LET m2 == memcpy(m, cp, t, hdr_size(m, t) * WordBytes)
         IN copy_pass(m2, tag_next(m2, t), tag_next(m2, cp))

\* the copy pass: memory and the local "copy" when the walk ends
copy_pass(m, t, cp) ==
    IF tag_end(m, t) THEN [mem |-> m, copy |-> cp]
    ELSE IF skip_atag(hdr_tag(m, t)) THEN copy_pass(m, tag_next(m, t), cp)
    ELSE LET m2 == copy_tag(m, cp, t)
         IN copy_pass(m2, tag_next(m2, t), tag_next(m2, cp))

\* malloc(n): NULL when the allocator refuses or the arena is exhausted
malloc(b, n, ok) == IF ok /\ b + n <= HeapEnd THEN b ELSE NULL

\* the serial number kept only when the buffer could be allocated
copy_atags_serial_with_copy(st, tags, ok, fill) ==
    IF tags = NULL THEN st
    ELSE LET s1 == size_pass(st.mem, tags, st) IN
         IF s1.fw_atags_size = 0 THEN s1
         ELSE LET p == malloc(s1.brk, s1.fw_atags_size, ok) IN
              IF p = NULL
              THEN [s1 EXCEPT !.env = st.env, !.serial_writes = st.serial_writes]
              ELSE LET m1 == fill_block(s1.mem, p, s1.fw_atags_size, fill)
                       r == copy_pass(m1, tags, p)
                   IN [s1 EXCEPT !.mem = r.mem, !.copy = r.copy, !.fw_atags_copy = p,
                                 !.brk = @ + s1.fw_atags_size]

\* st: mem, fw_atags_copy, fw_atags_size, env, serial_writes, brk, copy
copy_atags(st, tags, ok, fill) ==
    IF tags = NULL THEN st
    ELSE LET s1 == size_pass(st.mem, tags, st) IN
         IF s1.fw_atags_size = 0 THEN s1
         ELSE LET p == malloc(s1.brk, s1.fw_atags_size, ok) IN
              IF p = NULL THEN s1
              ELSE LET m1 == fill_block(s1.mem, p, s1.fw_atags_size, fill)
                       r == copy_pass(m1, tags, p)
                   IN [s1 EXCEPT !.mem = r.mem, !.copy = r.copy, !.fw_atags_copy = p,
                                 !.brk = @ + s1.fw_atags_size]

(* ----------------------------- check_keys ----------------------------- *)

FDT_ERR_NOTFOUND == 1
ENOENT == 2
KeyNames == {"volume-up", "volume-down"}

\* a device tree: its gpio-keys nodes in order, each the set of its subnodes' names
FdtNodeLists ==
    {<<>>, <<KeyNames>>, <<{"volume-up"}, {"volume-down"}>>, <<{"volume-down"}>>}
FdtBlobs ==
    {[blob |-> FALSE, nodes |-> <<>>]} \cup {[blob |-> TRUE, nodes |-> ns] : ns \in FdtNodeLists}

\* the board's keys: -1 when the GPIO cannot be requested, else the level read
GpioStates == [KeyNames -> {-1, 0, 1}]

\* offset of the next gpio-keys node after offset (start: -1)
fdt_node_offset_by_compatible(fdt, offset) ==
    LET nxt == IF offset < 0 THEN 1 ELSE offset + 1
    IN IF nxt \in DOMAIN fdt.nodes THEN nxt ELSE -FDT_ERR_NOTFOUND

fdt_subnode_offset(fdt, offset, name) ==
    IF name \in fdt.nodes[offset] THEN offset ELSE -FDT_ERR_NOTFOUND

RECURSIVE request_gpio_keys_loop(_, _, _, _)
request_gpio_keys_loop(fdt, offset, up, down) ==
    IF offset = -FDT_ERR_NOTFOUND THEN [vol_up |-> up, vol_down |-> down]
    ELSE LET up1 == IF up < 0 THEN fdt_subnode_offset(fdt, offset, "volume-up") ELSE up
             down1 == IF down < 0 THEN fdt_subnode_offset(fdt, offset, "volume-down")
                      ELSE down
         IN IF up1 >= 0 /\ down1 >= 0 THEN [vol_up |-> up1, vol_down |-> down1]
            ELSE request_gpio_keys_loop(fdt, fdt_node_offset_by_compatible(fdt, offset),
                                        up1, down1)

\* the nodes request_gpio_keys arrives at
gpio_key_nodes(fdt) ==
    request_gpio_keys_loop(fdt, fdt_node_offset_by_compatible(fdt, -1),
                           -FDT_ERR_NOTFOUND, -FDT_ERR_NOTFOUND)

\* whether the descriptor was filled in: the node exists and the request succeeded
request_gpio_key(node, name, gpio) == node >= 0 /\ gpio[name] # -1

\* the descriptors of struct gpio_keys: TRUE when requested
request_gpio_keys(fdt, gpio) ==
    LET nodes == gpio_key_nodes(fdt)
    IN [vol_up |-> request_gpio_key(nodes.vol_up, "volume-up", gpio),
        vol_down |-> request_gpio_key(nodes.vol_down, "volume-down", gpio)]

\* an error code for a descriptor that was never requested
dm_gpio_get_value(desc, name, gpio) == IF desc THEN gpio[name] ELSE -ENOENT

\* "else if": fastboot looked at only when recovery was not chosen
check_keys_else(st, fdt, gpio) ==
    IF ~fdt.blob THEN [st EXCEPT !.keys = NoKeys]
    ELSE LET nodes == gpio_key_nodes(fdt)
             k == request_gpio_keys(fdt, gpio)
             up == dm_gpio_get_value(k.vol_up, "volume-up", gpio)
             down == dm_gpio_get_value(k.vol_down, "volume-down", gpio)
             seen == [blob |-> TRUE, vol_up_node |-> nodes.vol_up >= 0,
                      vol_down_node |-> nodes.vol_down >= 0, vol_up |-> k.vol_up,
                      vol_down |-> k.vol_down, up_value |-> up, down_value |-> down]
         IN IF up = 1
            THEN [st EXCEPT !.env = env_set(@, "bootcmd", "run recoverybootcmd"),
                            !.keys = seen]
            ELSE IF down = 1
            THEN [st EXCEPT !.env = env_set(@, "preboot", "setenv preboot; run fastbootcmd"),
                            !.keys = seen]
            ELSE [st EXCEPT !.keys = seen]

check_keys(st, fdt, gpio) ==
    IF ~fdt.blob THEN [st EXCEPT !.keys = NoKeys]
    ELSE LET nodes == gpio_key_nodes(fdt)
             k == request_gpio_keys(fdt, gpio)
             up == dm_gpio_get_value(k.vol_up, "volume-up", gpio)
             down == dm_gpio_get_value(k.vol_down, "volume-down", gpio)
             seen == [blob |-> TRUE, vol_up_node |-> nodes.vol_up >= 0,
                      vol_down_node |-> nodes.vol_down >= 0, vol_up |-> k.vol_up,
                      vol_down |-> k.vol_down, up_value |-> up, down_value |-> down]
             s1 == IF up = 1
                   THEN [st EXCEPT !.env = env_set(@, "bootcmd", "run recoverybootcmd"),
                                   !.keys = seen]
                   ELSE [st EXCEPT !.keys = seen]
         IN IF down = 1
            THEN [s1 EXCEPT !.env = env_set(@, "preboot", "setenv preboot; run fastbootcmd")]
            ELSE s1

(* ----------------------------- misc_init_r ---------------------------- *)

\* junk a fresh malloc block may hold
HeapFill == {0, 2989}

\* the boards a boot may run on: a device tree and the state of the keys
Boards == FdtBlobs \X GpioStates
\* under SpecRecall: no device tree, or both keys present and held down
RecallBoards ==
    {<<[blob |-> FALSE, nodes |-> <<>>], [k \in KeyNames |-> 0]>>,
     <<[blob |-> TRUE, nodes |-> <<KeyNames>>], [k \in KeyNames |-> 1]>>}

misc_init_r(limit, boards) ==
    /\ InInit("board_init")
    /\ calls["misc_init_r"] < limit
    /\ LET st == [mem |-> mem, fw_atags_copy |-> fw_atags_copy,
                  fw_atags_size |-> fw_atags_size, env |-> env,
                  serial_writes |-> serial_writes, brk |-> brk, copy |-> copy,
                  keys |-> keys]
           tags == fw_atags_get(mem, fw_atags)
           copied == {copy_atags(st, tags, ok, fill) : ok \in BOOLEAN, fill \in HeapFill}
       IN \E s2 \in {check_keys(s1, b[1], b[2]) : s1 \in copied, b \in boards} :
           /\ mem' = s2.mem
           /\ fw_atags_copy' = s2.fw_atags_copy
           /\ fw_atags_size' = s2.fw_atags_size
           /\ env' = s2.env
           /\ serial_writes' = s2.serial_writes
           /\ brk' = s2.brk
           /\ copy' = s2.copy
           /\ keys' = s2.keys
    /\ ret' = 0
    /\ Called("misc_init_r")
    /\ UNCHANGED <<fw_mach, fw_atags, ram_size, bi_dram, bi_arch_number, bi_boot_params,
                   params_in, params>>

(* --------------------------- setup_board_tags ------------------------- *)

\* where the caller's cursor may stand: in the boot-parameter area that
\* board_init published, after a header-only first record, or at the start
\* of a buffer of the caller's own
Cursors ==
    {OutBase}
    \cup (IF bi_boot_params = 0 THEN {} ELSE {bi_boot_params + HdrWords * WordBytes})

\* the test for a filtered list left out
setup_board_tags_unchecked(m, cursor, cp, size) ==
    [mem |-> memcpy(m, cursor, cp, size), cursor |-> cursor + size]

\* the cursor advanced as a pointer to words, not to bytes
setup_board_tags_words(m, cursor, cp, size) ==
    IF cp = NULL THEN [mem |-> m, cursor |-> cursor]
    ELSE [mem |-> memcpy(m, cursor, cp, size), cursor |-> cursor + size * WordBytes]

\* the list moved out of the buffer: destination and source exchanged
setup_board_tags_swapped(m, cursor, cp, size) ==
    IF cp = NULL THEN [mem |-> m, cursor |-> cursor]
    ELSE [mem |-> memcpy(m, cp, cursor, size), cursor |-> cursor + size]

\* the result of setup_board_tags: memory and the cursor *in_params
setup_board_tags_body(m, cursor, cp, size) ==
    IF cp = NULL THEN [mem |-> m, cursor |-> cursor]
    ELSE [mem |-> memcpy(m, cursor, cp, size), cursor |-> cursor + size]

setup_board_tags(in_params) ==
    /\ calls["save_boot_params"] = 1
    /\ calls["setup_board_tags"] < MaxEmit
    /\ params_in' = in_params
    /\ \E r \in {setup_board_tags_body(mem, in_params, fw_atags_copy, fw_atags_size)} :
        /\ mem' = r.mem
        /\ params' = r.cursor
    /\ ret' = 0
    /\ Called("setup_board_tags")
    /\ UNCHANGED <<fw_mach, fw_atags, fw_atags_copy, fw_atags_size, ram_size, bi_dram,
                   bi_arch_number, bi_boot_params, env, serial_writes, brk, copy,
                   keys>>

(* --------------------------- specifications --------------------------- *)

SaveBootParams == \E r1 \in MachIds : save_boot_params(0, r1, AtagsAddr, 0)
SetupBoardTags == \E p \in Cursors : setup_board_tags(p)
MiscInitR == misc_init_r(1, Boards)
MiscInitRAgain == misc_init_r(MaxRecall, RecallBoards)

\* one boot: every init hook runs at most once; setup_board_tags at any time
Next ==
    \/ SaveBootParams
    \/ dram_init
    \/ dram_init_banksize
    \/ board_init
    \/ MiscInitR
    \/ SetupBoardTags

Spec == Init /\ [][Next]_vars

\* as Spec, over shorter lists, but misc_init_r may be called again
NextRecall ==
    \/ SaveBootParams
    \/ dram_init
    \/ dram_init_banksize
    \/ board_init
    \/ MiscInitRAgain
    \/ SetupBoardTags

SpecRecall == InitRecall /\ [][NextRecall]_vars

(* ------------------------- notions of the claims ---------------------- *)

Step(o) == calls' = [calls EXCEPT ![o] = @ + 1]

\* the source list is valid: its first record is CORE
Valid(m) == hdr_tag(m, fw_atags) = ATAG_CORE

RECURSIVE SumSeq(_)
SumSeq(q) == IF q = <<>> THEN 0 ELSE Head(q) + SumSeq(Tail(q))

\* the tag kinds this stage regenerates itself
RegenerateSet == {ATAG_NONE, ATAG_CORE, ATAG_INITRD, ATAG_INITRD2}

\* among the records at addresses ts: those of tag MEM, those retained
MemOf(m, ts) == SelectSeq(ts, LAMBDA t : hdr_tag(m, t) = ATAG_MEM)
RetainedOf(m, ts) == SelectSeq(ts, LAMBDA t : hdr_tag(m, t) \notin RegenerateSet)
SerialOf(m, ts) == SelectSeq(ts, LAMBDA t : hdr_tag(m, t) = ATAG_SERIAL)

MemSizes(m, ts) == [i \in 1..Len(MemOf(m, ts)) |-> mem_size(m, MemOf(m, ts)[i])]
RecBytes(m, ts) == [i \in 1..Len(ts) |-> hdr_size(m, ts[i]) * WordBytes]
RecWords(m, ts) == Flat([i \in 1..Len(ts) |-> Words(m, ts[i], hdr_size(m, ts[i]))])

\* the bank table after the first records of tag MEM among ts were entered
BankTable(m, ts, old) ==
    [b \in Banks |->
        IF b < Len(MemOf(m, ts))
        THEN [start |-> mem_start(m, MemOf(m, ts)[b + 1]),
              size |-> mem_size(m, MemOf(m, ts)[b + 1])]
        ELSE old[b]]

\* the records of the source list as a walk visits them
Source(m) == for_each_tag(m, fw_atags)

\* the words of the filtered buffer at cp, size bytes long
FilteredAt(m, cp, size) == Words(m, cp, size \div WordBytes)
Filtered == FilteredAt(mem, fw_atags_copy, fw_atags_size)

\* byte address a lies in the n bytes from p
InSpan(a, p, n) == a >= p /\ a < p + n

\* memory m2 differs from m1 at most in the n bytes from p
SameOutside(m1, m2, p, n) ==
    \A i \in Addrs : InSpan(i * WordBytes, p, n) \/ m2[i] = m1[i]

(* ------------------------------- C1 ----------------------------------- *)

\* C1: over the first call of copy_atags on a list whose first record is
\* CORE and whose allocation succeeds, the copy pass advances "copy" by
\* exactly fw_atags_size bytes from the start of the buffer, and the call
\* changes no byte of memory outside those fw_atags_size bytes.
C1_CopyEqualsSize ==
    [][(Step("misc_init_r") /\ fw_atags_size = 0 /\ fw_atags_copy' # NULL)
        => /\ copy' - fw_atags_copy' = fw_atags_size'
           /\ SameOutside(mem, mem', fw_atags_copy', fw_atags_size')]_vars

C1_Witness ==
    /\ calls["misc_init_r"] = 1
    /\ fw_atags_copy # NULL
    /\ fw_atags_size = 2 * MaxRecWords * WordBytes
    /\ copy = fw_atags_copy + fw_atags_size

(* ------------------------------- C2 ----------------------------------- *)

\* C2: the filtered list copy_atags produces holds, word for word and in
\* source order, exactly the source records whose tag is outside
\* {NONE, CORE, INITRD, INITRD2}.
C2_FilteredIsRetained ==
    [][(Step("misc_init_r") /\ fw_atags_copy' # NULL)
        => /\ Filtered' = RecWords(mem, RetainedOf(mem, Source(mem)))
           /\ fw_atags_size' = SumSeq(RecBytes(mem, RetainedOf(mem, Source(mem))))]_vars

C2_Witness ==
    /\ calls["misc_init_r"] = 1
    /\ calls["setup_board_tags"] = 0
    /\ fw_atags_copy # NULL
    /\ \E t \in {Source(mem)[i] : i \in 1..Len(Source(mem))} : hdr_tag(mem, t) = ATAG_INITRD2
    /\ Filtered = TagCmdline

(* ------------------------------- C3 ----------------------------------- *)

\* C3: on a list starting with CORE, dram_init makes gd->ram_size the sum
\* of the sizes of all MEM records, whatever CONFIG_NR_DRAM_BANKS is, and
\* dram_init_banksize enters the (start, size) of the first
\* min(n, CONFIG_NR_DRAM_BANKS) MEM records, in source order, and leaves
\* the other entries as they were.
C3_RamAndBanks ==
    [][/\ (Step("dram_init") /\ Valid(mem))
            => ram_size' = SumSeq(MemSizes(mem, Source(mem)))
       /\ (Step("dram_init_banksize") /\ Valid(mem))
            => bi_dram' = BankTable(mem, Source(mem), bi_dram)]_vars

\* two MEM records, more than the table holds
C3_Witness ==
    /\ calls["dram_init"] = 1
    /\ calls["dram_init_banksize"] = 1
    /\ ~HandedOff
    /\ Valid(mem)
    /\ Len(MemOf(mem, Source(mem))) > CONFIG_NR_DRAM_BANKS
    /\ ram_size = 3
    /\ bi_dram[0] = [start |-> 3, size |-> 1]

(* ------------------------------- C4 ----------------------------------- *)

\* the records laid out from t, each found by the size of the one before
\* it, up to a record of size zero
RECURSIVE Laid(_, _)
Laid(m, t) == IF hdr_size(m, t) = 0 THEN <<>> ELSE <<t>> \o Laid(m, tag_next(m, t))

\* the records of ts that precede its first NONE record
RECURSIVE BeforeNone(_, _)
BeforeNone(m, ts) ==
    IF ts = <<>> \/ hdr_tag(m, Head(ts)) = ATAG_NONE THEN <<>>
    ELSE <<Head(ts)>> \o BeforeNone(m, Tail(ts))

Listed(m) == BeforeNone(m, Laid(m, fw_atags))

\* C4: every walk ends at the first NONE record, exclusive, also when that
\* record has the header-only size: dram_init counts, dram_init_banksize
\* enters, and copy_atags sizes and copies only records that precede it.
C4_WalksEndAtNone ==
    [][/\ (Step("dram_init") /\ Valid(mem))
            => ram_size' = SumSeq(MemSizes(mem, Listed(mem)))
       /\ (Step("dram_init_banksize") /\ Valid(mem))
            => bi_dram' = BankTable(mem, Listed(mem), bi_dram)
       /\ (Step("misc_init_r") /\ Valid(mem))
            => /\ fw_atags_size' =
                    fw_atags_size + SumSeq(RecBytes(mem, RetainedOf(mem, Listed(mem))))
               /\ fw_atags_copy' # fw_atags_copy
                    => FilteredAt(mem', fw_atags_copy', copy' - fw_atags_copy')
                        = RecWords(mem, RetainedOf(mem, Listed(mem)))]_vars

\* a header-only NONE record with a MEM record behind it, all hooks run
C4_Witness ==
    /\ calls["misc_init_r"] = 1
    /\ ~HandedOff
    /\ Valid(mem)
    /\ Len(Laid(mem, fw_atags)) = 3
    /\ hdr_tag(mem, Laid(mem, fw_atags)[2]) = ATAG_NONE
    /\ hdr_tag(mem, Laid(mem, fw_atags)[3]) = ATAG_MEM
    /\ ram_size = 0
    /\ fw_atags_size = 0

(* ------------------------------- C5 ----------------------------------- *)

\* the length in words of the list at byte address a, terminator included
ListWords(m, a) ==
    HdrWords + SumSeq([i \in 1..Len(Laid(m, a)) |-> hdr_size(m, Laid(m, a)[i])])

\* a step keeps every word of the source list at a
SourceKept(a) ==
    \A i \in 0..(ListWords(mem, a) - 1) :
        Rd(mem', a + i * WordBytes) = Rd(mem, a + i * WordBytes)

\* C5 as claimed: once fw_atags is captured, no operation changes a byte
\* of the source list.
C5_SourceNeverMutated == [][calls["save_boot_params"] = 1 => SourceKept(fw_atags)]_vars

\* C5 as amended: save_boot_params, dram_init, dram_init_banksize,
\* board_init and misc_init_r change no byte of the source list;
\* setup_board_tags changes memory only when a filtered list exists, and
\* then only within the fw_atags_size bytes at the caller's cursor, which
\* are bytes of the source list when the cursor stands in the
\* boot-parameter area.
C5_OnlyHandOffOverwrites ==
    [][/\ ~Step("setup_board_tags") => SourceKept(fw_atags')
       /\ Step("setup_board_tags")
            => /\ SameOutside(mem, mem', params_in', fw_atags_size)
               /\ fw_atags_copy = NULL => mem' = mem]_vars

\* the hand-off wrote into the boot-parameter area and changed the list
C5_Witness ==
    /\ calls["misc_init_r"] = 1
    /\ calls["setup_board_tags"] = 1
    /\ bi_boot_params = fw_atags
    /\ params_in = bi_boot_params + HdrWords * WordBytes
    /\ params > params_in
    /\ hdr_tag(mem, params_in) = ATAG_CMDLINE
    /\ fw_atags_size = 3 * WordBytes

(* ------------------------------- C6 ----------------------------------- *)

\* C6: when the first record is not CORE, dram_init and dram_init_banksize
\* return -EINVAL and leave gd->ram_size at zero and the bank table empty,
\* and misc_init_r leaves fw_atags_copy NULL and fw_atags_size 0, writes
\* no serial# and changes no memory.
C6_InvalidListIsNoData ==
    [][/\ (Step("dram_init") /\ ~Valid(mem))
            => ram_size' = 0 /\ ram_size = 0 /\ ret' = -EINVAL
       /\ (Step("dram_init_banksize") /\ ~Valid(mem))
            => /\ bi_dram' = [b \in Banks |-> [start |-> 0, size |-> 0]]
               /\ bi_dram' = bi_dram
               /\ ret' = -EINVAL
       /\ (Step("misc_init_r") /\ ~Valid(mem))
            => /\ fw_atags_copy' = NULL
               /\ fw_atags_size' = 0
               /\ serial_writes' = serial_writes
               /\ env_get(env', "serial#") = env_get(env, "serial#")
               /\ mem' = mem]_vars

\* a list MEM, SERIAL, end: all three hooks ran and found no data
C6_Witness ==
    /\ ~Valid(mem)
    /\ calls["misc_init_r"] = 1
    /\ Len(MemOf(mem, Laid(mem, fw_atags))) = 1
    /\ Len(SerialOf(mem, Laid(mem, fw_atags))) = 1
    /\ ~env_get(env, "serial#")
    /\ ram_size = 0
    /\ fw_atags_copy = NULL
    /\ fw_atags_size = 0

(* ------------------------------- C7 ----------------------------------- *)

\* C7: with no filtered list (fw_atags_copy is NULL: misc_init_r has not
\* run, the list was invalid, nothing was retained, or malloc failed),
\* setup_board_tags changes neither the cursor nor any byte of memory.
C7_NoListNoOp ==
    [][(Step("setup_board_tags") /\ fw_atags_copy = NULL)
        => params' = params_in' /\ mem' = mem]_vars

\* the allocation failed, then the hand-off was attempted
C7_Witness ==
    /\ calls["misc_init_r"] = 1
    /\ calls["setup_board_tags"] = 1
    /\ Valid(mem)
    /\ fw_atags_size > 0
    /\ fw_atags_copy = NULL
    /\ params_in = bi_boot_params + HdrWords * WordBytes
    /\ params = params_in

(* ------------------------------- C8 ----------------------------------- *)

\* the records of the filtered buffer, from fw_atags_copy up to where the
\* copy pass stopped
RECURSIVE BufferRecs(_, _, _)
BufferRecs(m, t, end) ==
    IF t >= end \/ hdr_size(m, t) = 0 THEN <<>>
    ELSE <<t>> \o BufferRecs(m, tag_next(m, t), end)

FilteredBytes == SumSeq(RecBytes(mem, BufferRecs(mem, fw_atags_copy, copy)))

\* C8: with a filtered list, setup_board_tags copies it word for word to
\* the cursor, advances the cursor by its byte length (the sum of size*4
\* over its records), and changes no byte outside that span.
C8_HandOffCopiesList ==
    [][(Step("setup_board_tags") /\ fw_atags_copy # NULL)
        => /\ params' = params_in' + FilteredBytes
           /\ Words(mem', params_in', FilteredBytes \div WordBytes)
                = RecWords(mem, BufferRecs(mem, fw_atags_copy, copy))
           /\ SameOutside(mem, mem', params_in', FilteredBytes)]_vars

\* two records handed off into the caller's own buffer
C8_Witness ==
    /\ calls["setup_board_tags"] = 1
    /\ fw_atags_copy # NULL
    /\ Len(BufferRecs(mem, fw_atags_copy, copy)) = 2
    /\ params_in = OutBase
    /\ params = params_in + fw_atags_size
    /\ Words(mem, params_in, fw_atags_size \div WordBytes) = Filtered
    /\ hdr_tag(mem, params_in) = ATAG_SERIAL

(* ------------------------------- C9 ----------------------------------- *)

\* C9: when the store holds a serial# as misc_init_r starts, the call
\* writes none and the value stays; and over a whole boot parse_serial
\* writes serial# at most once, however many SERIAL records there are.
C9_SerialNoClobber ==
    [][/\ (Step("misc_init_r") /\ env_get(env, "serial#"))
            => /\ serial_writes' = serial_writes
               /\ env_get(env', "serial#")
               /\ env'["serial#"] = env["serial#"]
       /\ serial_writes' <= 1]_vars

\* a preset serial# survived a list with two SERIAL records
C9_Witness ==
    /\ calls["misc_init_r"] = 1
    /\ Valid(mem)
    /\ Len(SerialOf(mem, Source(mem))) = 2
    /\ env_get(env, "serial#")
    /\ env["serial#"] = "feedfacecafebeef"
    /\ serial_writes = 0

(* ------------------------------- C10 ---------------------------------- *)

\* the records the copy pass wrote, from fw_atags_copy up to where "copy"
\* stopped, are the same after the step
BufferKept ==
    fw_atags_copy # NULL
        => Words(mem', fw_atags_copy, (copy - fw_atags_copy) \div WordBytes)
            = Words(mem, fw_atags_copy, (copy - fw_atags_copy) \div WordBytes)

\* C10 as claimed: once copy_atags has run, no operation, a further
\* misc_init_r included, changes fw_atags_copy, fw_atags_size or the
\* contents of the buffer.
C10_WrittenOnce ==
    [][calls["misc_init_r"] >= 1
        => fw_atags_copy' = fw_atags_copy /\ fw_atags_size' = fw_atags_size
           /\ BufferKept]_vars

\* C10 as amended: only misc_init_r changes fw_atags_copy and
\* fw_atags_size; save_boot_params, dram_init, dram_init_banksize,
\* board_init and setup_board_tags (its cursor outside the buffer) change
\* neither them nor the contents of the buffer. Every misc_init_r on a
\* valid list, a further one included, adds the byte total of the retained
\* records to fw_atags_size, leaves fw_atags_copy as it was or points it at
\* a newly allocated block, and keeps the records of the earlier buffer.
C10_OnlyMiscInitRWrites ==
    [][/\ ~Step("misc_init_r")
            => fw_atags_copy' = fw_atags_copy /\ fw_atags_size' = fw_atags_size
               /\ BufferKept
       /\ Step("misc_init_r")
            => /\ BufferKept
               /\ fw_atags_copy' \in {fw_atags_copy, brk}
               /\ Valid(mem) => fw_atags_size' = fw_atags_size
                    + SumSeq(RecBytes(mem, RetainedOf(mem, Source(mem))))]_vars

\* a second misc_init_r doubled fw_atags_size and replaced the buffer
C10_Witness ==
    /\ calls["misc_init_r"] = 2
    /\ calls["setup_board_tags"] = 1
    /\ fw_atags_copy > HeapBase
    /\ fw_atags_size = 2 * (copy - fw_atags_copy)

(* ------------------------------- C11 ---------------------------------- *)

\* the record headers as they lie in memory from t up to the terminator, a
\* header that declares size zero taken to occupy its two words
RECURSIVE Physical(_, _)
Physical(m, t) ==
    IF hdr_tag(m, t) = ATAG_NONE /\ hdr_size(m, t) = 0 THEN <<>>
    ELSE <<t>> \o Physical(m, t + Max(hdr_size(m, t), HdrWords) * WordBytes)

\* the records of ts that precede its first record of declared size zero
RECURSIVE BeforeZero(_, _)
BeforeZero(m, ts) ==
    IF ts = <<>> \/ hdr_size(m, Head(ts)) = 0 THEN <<>>
    ELSE <<Head(ts)>> \o BeforeZero(m, Tail(ts))

\* a record of declared size zero lies in the list, ahead of the terminator
HasZero(m) == \E i \in 1..Len(Physical(m, fw_atags)) : hdr_size(m, Physical(m, fw_atags)[i]) = 0

UpToZero(m) == BeforeNone(m, BeforeZero(m, Physical(m, fw_atags)))

\* C11: a record of declared size zero anywhere in a list starting with
\* CORE ends every walk: dram_init, dram_init_banksize and both passes of
\* copy_atags complete, return no error, and count, enter, size, render
\* and copy only records that precede it, neither it nor any after it.
C11_ZeroSizeEndsWalk ==
    [][/\ (Step("dram_init") /\ Valid(mem) /\ HasZero(mem))
            => ret' = 0 /\ ram_size' = ram_size + SumSeq(MemSizes(mem, UpToZero(mem)))
       /\ (Step("dram_init_banksize") /\ Valid(mem) /\ HasZero(mem))
            => ret' = 0 /\ bi_dram' = BankTable(mem, UpToZero(mem), bi_dram)
       /\ (Step("misc_init_r") /\ Valid(mem) /\ HasZero(mem))
            => /\ ret' = 0
               /\ fw_atags_size' = fw_atags_size
                    + SumSeq(RecBytes(mem, RetainedOf(mem, UpToZero(mem))))
               /\ serial_writes' # serial_writes
                    => SerialOf(mem, UpToZero(mem)) # <<>>
               /\ fw_atags_copy' # fw_atags_copy
                    => FilteredAt(mem', fw_atags_copy', copy' - fw_atags_copy')
                        = RecWords(mem, RetainedOf(mem, UpToZero(mem)))]_vars

\* CORE, a MEM header of size zero, then a MEM record: every walk done,
\* nothing counted and nothing to copy
C11_Witness ==
    /\ calls["misc_init_r"] = 1
    /\ ~HandedOff
    /\ Valid(mem)
    /\ Len(Physical(mem, fw_atags)) = 3
    /\ hdr_tag(mem, Physical(mem, fw_atags)[2]) = ATAG_MEM
    /\ hdr_size(mem, Physical(mem, fw_atags)[2]) = 0
    /\ hdr_tag(mem, Physical(mem, fw_atags)[3]) = ATAG_MEM
    /\ hdr_size(mem, Physical(mem, fw_atags)[3]) = 4
    /\ ram_size = 0
    /\ bi_dram[0].size = 0
    /\ fw_atags_size = 0
    /\ ret = 0

(* ------------------------------- C12 ---------------------------------- *)

\* the i-th of the eight hexadecimal digits of a 32-bit value, most
\* significant first
Nibble(v, i) == (v \div (16 ^ (8 - i))) % 16

LowerHex == <<"0", "1", "2", "3", "4", "5", "6", "7", "8", "9", "a", "b", "c", "d", "e", "f">>

\* sixteen characters: the eight digits of high, then the eight of low
Rendering(low, high) ==
    LowerHex[Nibble(high, 1) + 1] \o LowerHex[Nibble(high, 2) + 1]
    \o LowerHex[Nibble(high, 3) + 1] \o LowerHex[Nibble(high, 4) + 1]
    \o LowerHex[Nibble(high, 5) + 1] \o LowerHex[Nibble(high, 6) + 1]
    \o LowerHex[Nibble(high, 7) + 1] \o LowerHex[Nibble(high, 8) + 1]
    \o LowerHex[Nibble(low, 1) + 1] \o LowerHex[Nibble(low, 2) + 1]
    \o LowerHex[Nibble(low, 3) + 1] \o LowerHex[Nibble(low, 4) + 1]
    \o LowerHex[Nibble(low, 5) + 1] \o LowerHex[Nibble(low, 6) + 1]
    \o LowerHex[Nibble(low, 7) + 1] \o LowerHex[Nibble(low, 8) + 1]

\* the first SERIAL record a walk of the source list meets
FirstSerial(m) == Head(SerialOf(m, Source(m)))

\* C12: when the sizing pass meets a SERIAL record (low, high) and the
\* environment holds no serial#, serial# becomes sixteen lowercase
\* hexadecimal digits: high zero-padded to eight, then low zero-padded to
\* eight; low = 0x1, high = 0x2 gives "0000000200000001".
C12_SerialRendering ==
    [][(/\ Step("misc_init_r")
        /\ Valid(mem)
        /\ ~env_get(env, "serial#")
        /\ SerialOf(mem, Source(mem)) # <<>>)
        => /\ env_get(env', "serial#")
           /\ env'["serial#"] = Rendering(serialnr_low(mem, FirstSerial(mem)),
                                          serialnr_high(mem, FirstSerial(mem)))
           /\ (/\ serialnr_low(mem, FirstSerial(mem)) = 1
               /\ serialnr_high(mem, FirstSerial(mem)) = 2)
                => env'["serial#"] = "0000000200000001"
           /\ (/\ serialnr_low(mem, FirstSerial(mem)) = 171
               /\ serialnr_high(mem, FirstSerial(mem)) = 0)
                => env'["serial#"] = "00000000000000ab"]_vars

\* the record (low = 1, high = 2) rendered into an empty store
C12_Witness ==
    /\ calls["misc_init_r"] = 1
    /\ ~HandedOff
    /\ Valid(mem)
    /\ SerialOf(mem, Source(mem)) # <<>>
    /\ serialnr_low(mem, FirstSerial(mem)) = 1
    /\ serialnr_high(mem, FirstSerial(mem)) = 2
    /\ serial_writes = 1
    /\ env_get(env, "serial#")
    /\ env["serial#"] = "0000000200000001"

(* ------------------------------- C13 ---------------------------------- *)

\* the step wrote environment key k
Wrote(k) == env_get(env', k) /\ (~env_get(env, k) \/ env'[k] # env[k])

\* what a key read in the check_keys of this step
UpAsserted == keys'.up_value = 1
DownAsserted == keys'.down_value = 1

\* each key decides its own environment key, and reads asserted only
\* through a descriptor requested from a node found in a blob
KeysDecide ==
    /\ Wrote("bootcmd") <=> UpAsserted
    /\ Wrote("preboot") <=> DownAsserted
    /\ Wrote("bootcmd") => env'["bootcmd"] = "run recoverybootcmd"
    /\ Wrote("preboot") => env'["preboot"] = "setenv preboot; run fastbootcmd"
    /\ UpAsserted => keys'.blob /\ keys'.vol_up_node /\ keys'.vol_up
    /\ DownAsserted => keys'.blob /\ keys'.vol_down_node /\ keys'.vol_down

\* C13 as claimed: bootcmd is set to the recovery command iff volume-up
\* reads asserted and preboot to the fastboot-chain command iff volume-down
\* reads asserted, independently; and with neither asserted, or no blob, or
\* a key node not found, neither environment key is written.
C13_KeysOrNothing ==
    [][Step("misc_init_r")
        => /\ KeysDecide
           /\ (\/ ~UpAsserted /\ ~DownAsserted
               \/ ~keys'.blob
               \/ ~keys'.vol_up_node
               \/ ~keys'.vol_down_node)
                => ~Wrote("bootcmd") /\ ~Wrote("preboot")]_vars

\* C13 as amended: bootcmd is set to the recovery command iff volume-up
\* reads asserted and preboot to the fastboot-chain command iff volume-down
\* reads asserted, independently; with neither asserted or no blob neither
\* key is written; a key whose node was not found does not write its own
\* environment key, while the other key still decides its own.
C13_EachKeyDecidesItsOwn ==
    [][Step("misc_init_r")
        => /\ KeysDecide
           /\ (~UpAsserted /\ ~DownAsserted) \/ ~keys'.blob
                => ~Wrote("bootcmd") /\ ~Wrote("preboot")
           /\ ~keys'.vol_up_node => ~Wrote("bootcmd")
           /\ ~keys'.vol_down_node => ~Wrote("preboot")]_vars

\* no volume-up node, volume-down held: preboot written, bootcmd not
C13_Witness ==
    /\ calls["misc_init_r"] = 1
    /\ keys.blob
    /\ ~keys.vol_up_node
    /\ keys.vol_down_node
    /\ keys.down_value = 1
    /\ env_get(env, "preboot")
    /\ ~env_get(env, "bootcmd")

(* ------------------------------- C14 ---------------------------------- *)

\* the filter applied to records ts: those skip_atag does not skip
Kept(m, ts) == SelectSeq(ts, LAMBDA t : ~skip_atag(hdr_tag(m, t)))

\* the records of the buffer the copy pass of this step filled
NewBuffer == BufferRecs(mem', fw_atags_copy', copy')

\* C14: filtering is idempotent: skip_atag skips no record of a filtered
\* list that copy_atags produced, so the filter applied to the records of
\* that list yields the same records, word for word.
C14_FilterIsFixedPoint ==
    [][(Step("misc_init_r") /\ fw_atags_copy' # fw_atags_copy)
        => /\ \A i \in 1..Len(NewBuffer) : ~skip_atag(hdr_tag(mem', NewBuffer[i]))
           /\ Kept(mem', NewBuffer) = NewBuffer
           /\ RecWords(mem', Kept(mem', NewBuffer))
                = FilteredAt(mem', fw_atags_copy', copy' - fw_atags_copy')]_vars

\* CORE, INITRD and a SERIAL record left a filtered list of the one SERIAL
C14_Witness ==
    /\ calls["misc_init_r"] = 1
    /\ ~HandedOff
    /\ fw_atags_copy # NULL
    /\ Len(Source(mem)) = 3
    /\ hdr_tag(mem, Source(mem)[2]) = ATAG_INITRD
    /\ Len(BufferRecs(mem, fw_atags_copy, copy)) = 1
    /\ hdr_tag(mem, fw_atags_copy) = ATAG_SERIAL

(* ------------------------------- C15 ---------------------------------- *)

\* C15: fw_mach and fw_atags are written by save_boot_params only, fw_mach
\* from the second register word and fw_atags from the third; no later
\* operation changes them, and board_init publishes exactly the saved
\* values as machine number and boot-parameter address, whether or not the
\* source list is valid.
C15_SavedWordsPublished ==
    [][/\ Step("save_boot_params") => fw_mach' \in MachIds /\ fw_atags' = AtagsAddr
       /\ ~Step("save_boot_params") => fw_mach' = fw_mach /\ fw_atags' = fw_atags
       /\ Step("board_init")
            => /\ bi_arch_number' = fw_mach
               /\ bi_boot_params' = fw_atags
               /\ ret' = 0]_vars

\* a list whose first record is not CORE: the words are published all the
\* same, and still hold after misc_init_r and a hand-off
C15_Witness ==
    /\ ~Valid(mem)
    /\ calls["board_init"] = 1
    /\ calls["misc_init_r"] = 1
    /\ calls["setup_board_tags"] = 1
    /\ fw_mach \in MachIds
    /\ fw_atags = AtagsAddr
    /\ bi_arch_number = fw_mach
    /\ bi_boot_params = fw_atags

(* ------------------------------- C16 ---------------------------------- *)

\* the smaller of two numbers
Min(a, b) == IF a <= b THEN a ELSE b

\* C16: dram_init_banksize writes no bank-table entry at an index outside
\* 0..CONFIG_NR_DRAM_BANKS-1, however many MEM records the source list
\* holds, and leaves the entries from index min(n, CONFIG_NR_DRAM_BANKS)
\* upward as they were.
C16_BanksInBounds ==
    [][Step("dram_init_banksize")
        => /\ DOMAIN bi_dram' = Banks
           /\ Valid(mem)
                => \A b \in Banks :
                    b >= Min(Len(MemOf(mem, Source(mem))), CONFIG_NR_DRAM_BANKS)
                        => bi_dram'[b] = bi_dram[b]
           /\ ~Valid(mem) => bi_dram' = bi_dram]_vars

\* more MEM records than the table holds: the table kept its size and its
\* first entry is the first MEM record
C16_Witness ==
    /\ calls["dram_init_banksize"] = 1
    /\ ~HandedOff
    /\ Valid(mem)
    /\ Len(MemOf(mem, Source(mem))) = CONFIG_NR_DRAM_BANKS + 1
    /\ DOMAIN bi_dram = Banks
    /\ bi_dram[0].start = mem_start(mem, MemOf(mem, Source(mem))[1])
    /\ bi_dram[0].size = mem_size(mem, MemOf(mem, Source(mem))[1])
    /\ bi_dram[0].size > 0

(* ------------------------------- C17 ---------------------------------- *)

\* the call of copy_atags in this step sized a list but got no buffer
AllocFailed == fw_atags_size' > fw_atags_size /\ fw_atags_copy' = fw_atags_copy

\* C17: serial extraction does not depend on the outcome of the copy: with
\* no serial# in the environment and a SERIAL record in a source list that
\* starts with CORE, misc_init_r leaves in serial# the rendering of the
\* first SERIAL record in source order, written once, also when the
\* allocation of the buffer fails and no filtered list is produced.
C17_SerialWithoutCopy ==
    [][(/\ Step("misc_init_r")
        /\ Valid(mem)
        /\ ~env_get(env, "serial#")
        /\ SerialOf(mem, Source(mem)) # <<>>)
        => /\ serial_writes' = serial_writes + 1
           /\ env_get(env', "serial#")
           /\ AllocFailed
                => /\ mem' = mem
                   /\ env'["serial#"] = Rendering(serialnr_low(mem, FirstSerial(mem)),
                                                  serialnr_high(mem, FirstSerial(mem)))
           /\ ~AllocFailed
                => /\ fw_atags_copy' # NULL
                   /\ env'["serial#"] = Rendering(serialnr_low(mem, FirstSerial(mem)),
                                                  serialnr_high(mem, FirstSerial(mem)))]_vars

\* two SERIAL records, the allocation failed: serial# is the first one's
C17_Witness ==
    /\ calls["misc_init_r"] = 1
    /\ Valid(mem)
    /\ fw_atags_copy = NULL
    /\ fw_atags_size > 0
    /\ Len(SerialOf(mem, Source(mem))) = 2
    /\ serialnr_low(mem, FirstSerial(mem)) = 171
    /\ serialnr_low(mem, SerialOf(mem, Source(mem))[2]) = 1
    /\ serial_writes = 1
    /\ env_get(env, "serial#")
    /\ env["serial#"] = "00000000000000ab"

====
